---- MODULE Spec2Model ----
(***************************************************************************)
(* The hot-reload development server of the Caffeine CLI                   *)
(* (packages/caffeine-cli/index.js): the HTTP request handler of           *)
(* startHotReloadServer, the "close" callback of a reload subscriber, the  *)
(* completion callback of fs.readFile, broadcastReload and the file        *)
(* watcher callback that calls it; and the dev command of main, which      *)
(* starts that server, spawns the desktop shell (java), installs the       *)
(* watcher and the SIGINT handler, and ends the process.                   *)
(*                                                                         *)
(* The contents of a file are a sequence of bytes: a one-character string  *)
(* for an ASCII byte, a name such as "xE9" for a byte above 0x7F.          *)
(* Strings are sequences of one-character strings, so that path.join,      *)
(* String.startsWith, String.endsWith, path.extname and String.replace     *)
(* are computed character by character as Node computes them (POSIX        *)
(* flavour of the path module).  Node runs every callback to completion,   *)
(* so each callback is one atomic action.                                  *)
(***************************************************************************)
EXTENDS Integers, Sequences, FiniteSets, TLC

VARIABLES
    hotReloadClients,   \* the registry: array of subscribed responses
    nextRes,            \* identity of the next response object the server creates
    transport,          \* per subscriber response: "none", "open", "closed"
                        \* (by the peer), "terminated" (by the process's end)
    resHeaders,         \* per subscriber response: what writeHead wrote
    writes,             \* per subscriber response: client.write calls made by
                        \* the most recent broadcastReload call
    delivered,          \* per subscriber response: how many of those reached
                        \* the peer
    closeEvents,        \* per subscriber response: "close" callbacks run
    req,                \* the static-file request under observation
    broadcasts,         \* number of broadcastReload calls so far
    raised,             \* the last broadcastReload call threw to its caller
    procUp,             \* the server process is alive
    dev,                \* the dev command: its environment, how far it got,
                        \* the listening socket, the java child, the watcher,
                        \* the SIGINT handler, the exit code
    diskDelta,          \* the files the process has written since it
                        \* started: path -> bytes
    cli                 \* a build or init command: what it finds, how far it
                        \* got, what it did to its directory, its exit code

vars == <<hotReloadClients, nextRes, transport, resHeaders, writes, delivered,
          closeEvents, req, broadcasts, raised, procUp, dev,
                   diskDelta, cli>>

(***************************************************************************)
(* Bounds                                                                  *)
(***************************************************************************)
MaxConns == 2
MaxBroadcasts == 2
MaxCloseNotifs == 2
MaxUrlSegs == 2

Conns == 1..MaxConns

(***************************************************************************)
(* String helpers                                                          *)
(***************************************************************************)
Range(s) == {s[i] : i \in 1..Len(s)}

StartsWith(s, p) == Len(p) <= Len(s) /\ SubSeq(s, 1, Len(p)) = p

EndsWith(s, p) ==
    Len(p) <= Len(s) /\ SubSeq(s, Len(s) - Len(p) + 1, Len(s)) = p

\* String.prototype.indexOf: first position of pat in s, 0 when absent
IndexOf(s, pat) ==
    LET hits == {i \in 1..(Len(s) - Len(pat) + 1) :
                    SubSeq(s, i, i + Len(pat) - 1) = pat}
    IN IF hits = {} THEN 0 ELSE CHOOSE i \in hits : \A j \in hits : i <= j

\* String.prototype.replace with a string pattern: the first occurrence only
StrReplace(s, pat, rep) ==
    LET i == IndexOf(s, pat)
    IN IF i = 0 THEN s
       ELSE SubSeq(s, 1, i - 1) \o rep \o SubSeq(s, i + Len(pat), Len(s))

\* bytes above 0x7F that occur in the files, and the characters outside ASCII
HighBytes == {"xC3", "xA9", "xE9", "xEF", "xBF", "xBD"}
EAcute == "U+00E9"
ReplacementChar == "U+FFFD"

\* Buffer.prototype.toString(): UTF-8 decoding; a byte that is not part of a
\* well-formed sequence becomes U+FFFD
RECURSIVE BufferToString(_)
BufferToString(b) ==
    IF b = <<>> THEN <<>>
    ELSE IF Len(b) >= 2 /\ b[1] = "xC3" /\ b[2] = "xA9"
    THEN <<EAcute>> \o BufferToString(SubSeq(b, 3, Len(b)))
    ELSE IF Len(b) >= 3 /\ b[1] = "xEF" /\ b[2] = "xBF" /\ b[3] = "xBD"
    THEN <<ReplacementChar>> \o BufferToString(SubSeq(b, 4, Len(b)))
    ELSE IF b[1] \in HighBytes
    THEN <<ReplacementChar>> \o BufferToString(Tail(b))
    ELSE <<b[1]>> \o BufferToString(Tail(b))

\* res.end(string): the string is written UTF-8 encoded
RECURSIVE Utf8Encode(_)
Utf8Encode(str) ==
    IF str = <<>> THEN <<>>
    ELSE IF str[1] = EAcute THEN <<"xC3", "xA9">> \o Utf8Encode(Tail(str))
    ELSE IF str[1] = ReplacementChar
    THEN <<"xEF", "xBF", "xBD">> \o Utf8Encode(Tail(str))
    ELSE <<str[1]>> \o Utf8Encode(Tail(str))

\* split on "/"
RECURSIVE Split(_)
Split(s) ==
    LET i == IndexOf(s, <<"/">>)
    IN IF i = 0 THEN <<s>>
       ELSE <<SubSeq(s, 1, i - 1)>> \o Split(SubSeq(s, i + 1, Len(s)))

RECURSIVE JoinSegs(_)
JoinSegs(segs) ==
    IF segs = <<>> THEN <<>>
    ELSE IF Len(segs) = 1 THEN segs[1]
    ELSE segs[1] \o <<"/">> \o JoinSegs(Tail(segs))

(***************************************************************************)
(* path.normalize / path.join / path.extname (POSIX)                       *)
(***************************************************************************)
DotDot == <<".", ".">>
Dot == <<".">>

\* normalizeString: drop "" and ".", let ".." remove the segment before it
RECURSIVE NormalizeSegs(_, _, _)
NormalizeSegs(segs, acc, allowAboveRoot) ==
    IF segs = <<>> THEN acc
    ELSE LET s == Head(segs)
             rest == Tail(segs)
         IN IF s = <<>> \/ s = Dot
            THEN NormalizeSegs(rest, acc, allowAboveRoot)
            ELSE IF s = DotDot
            THEN IF acc # <<>> /\ acc[Len(acc)] # DotDot
                 THEN NormalizeSegs(rest, SubSeq(acc, 1, Len(acc) - 1),
                                    allowAboveRoot)
                 ELSE IF allowAboveRoot
                 THEN NormalizeSegs(rest, Append(acc, DotDot), allowAboveRoot)
                 ELSE NormalizeSegs(rest, acc, allowAboveRoot)
            ELSE NormalizeSegs(rest, Append(acc, s), allowAboveRoot)

PathNormalize(p) ==
    IF p = <<>> THEN Dot
    ELSE LET isAbsolute == p[1] = "/"
             trailingSeparator == p[Len(p)] = "/"
             body == JoinSegs(NormalizeSegs(Split(p), <<>>, ~isAbsolute))
         IN IF body = <<>>
            THEN IF isAbsolute THEN <<"/">>
                 ELSE IF trailingSeparator THEN <<".", "/">> ELSE Dot
            ELSE (IF isAbsolute THEN <<"/">> ELSE <<>>) \o body
                 \o (IF trailingSeparator THEN <<"/">> ELSE <<>>)

\* path.join(a, b): empty arguments are skipped, the rest joined and normalised
PathJoin(a, b) ==
    IF a = <<>> /\ b = <<>> THEN Dot
    ELSE IF a = <<>> THEN PathNormalize(b)
    ELSE IF b = <<>> THEN PathNormalize(a)
    ELSE PathNormalize(a \o <<"/">> \o b)

\* path.extname: from the last "." of the last path segment; "" when there is
\* none, when the segment starts with its only ".", or when it is ".."
PathExtname(p) ==
    LET segs == SelectSeq(Split(p), LAMBDA s : s # <<>>)
        base == IF segs = <<>> THEN <<>> ELSE segs[Len(segs)]
        dots == {i \in 1..Len(base) : base[i] = "."}
        last == IF dots = {} THEN 0
                ELSE CHOOSE i \in dots : \A j \in dots : j <= i
    IN IF last <= 1 \/ base = DotDot THEN <<>>
       ELSE SubSeq(base, last, Len(base))

(***************************************************************************)
(* Server configuration, the reload endpoint, the files on disk            *)
(***************************************************************************)
Slash == <<"/">>
IndexHtml == <<"i", "n", "d", "e", "x", ".", "h", "t", "m", "l">>
SiteSecret == <<"s", "i", "t", "e", "-", "s", "e", "c", "r", "e", "t">>
FileX == <<"x">>

\* fullPath = path.resolve(args[1]): absolute, normalised, no trailing "/"
frontendPath == <<"/", "s", "r", "v", "/", "s", "i", "t", "e">>

HotReloadUrl ==
    <<"/", "_", "_", "h", "o", "t", "-", "r", "e", "l", "o", "a", "d">>

BodyTag == <<"<", "/", "b", "o", "d", "y", ">">>
hotReloadScript == <<"<script>EventSource(/__hot-reload)</script>">>

ExtHtml == <<".", "h", "t", "m", "l">>

\* names of further files of the root: HTML files without a closing body tag,
\* with two of them, with a byte that is not UTF-8, with a two-byte character,
\* named ".html"; one file per extension of mimeTypes; two of other extensions
HtmlFiles ==
    (<<"n">> \o ExtHtml :> <<"<", "p", ">">>)
    @@ (<<"t">> \o ExtHtml :> (<<"a">> \o BodyTag \o <<"b">> \o BodyTag))
    @@ (<<"l">> \o ExtHtml :> <<"c", "a", "f", "xE9">>)
    @@ (<<"u">> \o ExtHtml :> (<<"xC3", "xA9">> \o BodyTag))
    @@ (ExtHtml :> (<<"h">> \o BodyTag))

OtherFiles ==
    (<<"a", ".", "c", "s", "s">> :> <<"p", "{", "}">>)
    @@ (<<"a", ".", "j", "s">> :> <<"1", ";">>)
    @@ (<<"a", ".", "j", "s", "o", "n">> :> <<"{", "}">>)
    @@ (<<"a", ".", "p", "n", "g">> :> <<"xE9", "P", "N", "G">>)
    @@ (<<"a", ".", "j", "p", "g">> :> <<"xEF", "xBF">>)
    @@ (<<"a", ".", "g", "i", "f">> :> <<"G", "I", "F">>)
    @@ (<<"a", ".", "s", "v", "g">> :> <<"<", "s", "v", "g", ">">>)
    @@ (<<"a", ".", "t", "x", "t">> :> <<"t">>)
    @@ (<<"a", ".", "j", "p", "e", "g">> :> <<"xEF">>)

RootFiles == HtmlFiles @@ OtherFiles

\* the regular files that exist when the server starts
Disk ==
    (frontendPath \o Slash \o IndexHtml :> (<<"<", "p", ">">> \o BodyTag))
    @@ (frontendPath \o Slash \o FileX :> <<"x", "x">>)
    @@ [p \in {frontendPath \o Slash \o n : n \in DOMAIN RootFiles} |->
            RootFiles[SubSeq(p, Len(frontendPath) + 2, Len(p))]]
    @@ (<<"/", "s", "r", "v", "/">> \o SiteSecret \o Slash \o FileX
            :> <<"k", "e", "y">>)

\* the regular files on disk: path -> bytes
disk == diskDelta @@ Disk

\* the directories that hold the files on disk
Dirs ==
    {Slash} \cup UNION {{SubSeq(p, 1, i - 1) :
                             i \in {j \in 2..Len(p) : p[j] = "/"}} :
                         p \in DOMAIN disk}

\* the error code fs.readFile reports for a path that is not a regular file
ReadErrorCode(p) ==
    IF p \in Dirs THEN "EISDIR"
    ELSE IF \E f \in DOMAIN disk : StartsWith(p, f \o Slash) THEN "ENOTDIR"
    ELSE "ENOENT"

\* fs.readFile: the bytes of a regular file; an error for every other path
ReadFile(p) ==
    IF p \in DOMAIN disk THEN [err |-> FALSE, code |-> "", data |-> disk[p]]
    ELSE [err |-> TRUE, code |-> ReadErrorCode(p), data |-> <<>>]

mimeTypes ==
    (<<".", "h", "t", "m", "l">> :> "text/html")
    @@ (<<".", "c", "s", "s">> :> "text/css")
    @@ (<<".", "j", "s">> :> "application/javascript")
    @@ (<<".", "j", "s", "o", "n">> :> "application/json")
    @@ (<<".", "p", "n", "g">> :> "image/png")
    @@ (<<".", "j", "p", "g">> :> "image/jpeg")
    @@ (<<".", "g", "i", "f">> :> "image/gif")
    @@ (<<".", "s", "v", "g">> :> "image/svg+xml")

\* variant: another fallback type
MimeTypeOfOctetFallback(ext) ==
    IF ext \in DOMAIN mimeTypes THEN mimeTypes[ext]
    ELSE "application/octet-stream"

MimeTypeOf(ext) ==
    IF ext \in DOMAIN mimeTypes THEN mimeTypes[ext] ELSE "text/plain"

(***************************************************************************)
(* Request URLs: up to MaxUrlSegs segments ".." or "x", each after a "/";  *)
(* "/" alone; the path into the sibling directory; the reload endpoint     *)
(***************************************************************************)
UrlSegs == {DotDot, FileX}

RECURSIVE UrlsOfLen(_)
UrlsOfLen(n) ==
    IF n = 0 THEN {<<>>}
    ELSE {Slash \o s \o u : s \in UrlSegs, u \in UrlsOfLen(n - 1)}

\* a request for the file x of the directory site-secret next to the root
SiblingUrl == Slash \o DotDot \o Slash \o SiteSecret \o Slash \o FileX

StaticUrls ==
    UNION {UrlsOfLen(n) : n \in 1..MaxUrlSegs} \cup {Slash, SiblingUrl}

Urls == StaticUrls \cup {HotReloadUrl}

\* requests for the files of the root, and for one that does not exist
FileUrls ==
    {Slash \o n : n \in DOMAIN RootFiles}
    \cup {Slash, Slash \o FileX, Slash \o <<"m", ".", "p", "n", "g">>}

(***************************************************************************)
(* The pieces of the handlers                                              *)
(***************************************************************************)
NoHeaders == [status |-> 0, contentType |-> "", cacheControl |-> "",
              connection |-> ""]

\* res.writeHead(200, {...}) of the reload endpoint
SseHeaders == [status |-> 200, contentType |-> "text/event-stream",
               cacheControl |-> "no-cache", connection |-> "keep-alive"]

\* variant: the handler forgets writeHead
WriteHeadSkipped(headers, res, h) == headers

WriteHead(headers, res, h) == [headers EXCEPT ![res] = h]

\* variant: the response is pushed twice
PushClientTwice(clients, res) == Append(Append(clients, res), res)

\* hotReloadClients.push(res)
PushClient(clients, res) == Append(clients, res)

\* variant: the filter compares with the wrong object and removes nothing
FilterClientsKeepsAll(clients, res) == clients

\* variant: splice(indexOf(res), 1), which removes the last element when res
\* is absent (indexOf gives -1)
FilterClientsSplice(clients, res) ==
    LET at == {i \in 1..Len(clients) : clients[i] = res}
        k == IF at = {} THEN Len(clients)
             ELSE CHOOSE i \in at : \A j \in at : i <= j
    IN [i \in 1..(Len(clients) - (IF clients = <<>> THEN 0 ELSE 1)) |->
           IF i < k THEN clients[i] ELSE clients[i + 1]]

\* hotReloadClients.filter((client) => client !== res)
FilterClients(clients, res) == SelectSeq(clients, LAMBDA client : client # res)

IdleReq == [phase |-> "idle", filePath |-> <<>>, status |-> 0,
            contentType |-> "", body |-> <<>>, readPath |-> <<>>,
            injected |-> FALSE, ended |-> 0]

\* variant: no traversal guard, every path goes to fs.readFile
ServeStaticUnguarded(url) ==
    LET filePath == PathJoin(frontendPath,
                             IF url = Slash THEN IndexHtml ELSE url)
    IN [IdleReq EXCEPT !.phase = "reading", !.filePath = filePath,
                       !.readPath = filePath]

\* variant: no return after the 403 answer, the handler goes on to fs.readFile
ServeStaticFallsThrough(url) ==
    LET filePath == PathJoin(frontendPath,
                             IF url = Slash THEN IndexHtml ELSE url)
    IN IF ~StartsWith(filePath, frontendPath)
       THEN [IdleReq EXCEPT !.phase = "reading",
                            !.filePath = filePath, !.status = 403,
                            !.body = <<"Forbidden">>, !.ended = 1,
                            !.readPath = filePath]
       ELSE [IdleReq EXCEPT !.phase = "reading",
                            !.filePath = filePath, !.readPath = filePath]

\* the synchronous part of the static branch: join, guard, 403 or fs.readFile
ServeStatic(url) ==
    LET filePath == PathJoin(frontendPath,
                             IF url = Slash THEN IndexHtml ELSE url)
    IN IF ~StartsWith(filePath, frontendPath)
       THEN [IdleReq EXCEPT !.phase = "done",
                            !.filePath = filePath, !.status = 403,
                            !.body = <<"Forbidden">>, !.ended = 1]
       ELSE [IdleReq EXCEPT !.phase = "reading",
                            !.filePath = filePath, !.readPath = filePath]

\* variant: the callback does not look at err
ReadFileDoneIgnoresErr(r) ==
    [r EXCEPT !.phase = "done", !.status = 200,
              !.contentType = MimeTypeOf(PathExtname(r.filePath)),
              !.body = ReadFile(r.readPath).data]

\* the callback of fs.readFile
ReadFileDone(r) ==
    LET res == ReadFile(r.readPath)
        isHtml == EndsWith(r.filePath, ExtHtml)
    IN IF res.err
       THEN [r EXCEPT !.phase = "done", !.status = 404,
                      !.body = <<"Not Found">>, !.ended = @ + 1]
       ELSE [r EXCEPT !.phase = "done", !.status = 200, !.ended = @ + 1,
                      !.contentType = MimeTypeOf(PathExtname(r.filePath)),
                      !.body = IF isHtml
                               THEN Utf8Encode(
                                        StrReplace(BufferToString(res.data),
                                                   BodyTag,
                                                   hotReloadScript \o BodyTag))
                               ELSE res.data,
                      !.injected = isHtml]

\* ServeStatic, tabulated once for the request URLs
StaticResponses == [url \in StaticUrls \cup FileUrls |-> ServeStatic(url)]

\* variant: a write on a destroyed socket throws
ClientWriteThrows(c) ==
    [delivered |-> transport[c] = "open", threw |-> transport[c] # "open"]

\* client.write("data: reload\n\n") on a ServerResponse: the event reaches the
\* peer if the transport is open; on a destroyed socket the call returns false
\* and reports the error to its (absent) callback, it does not throw
ClientWrite(c) == [delivered |-> transport[c] = "open", threw |-> FALSE]

\* variant: the loop stops at the first write that does not go through
RECURSIVE ForEachWriteUntilFailure(_, _)
ForEachWriteUntilFailure(clients, acc) ==
    IF clients = <<>> THEN acc
    ELSE LET c == Head(clients)
             w == [acc.writes EXCEPT ![c] = @ + 1]
         IN IF transport[c] # "open"
            THEN [acc EXCEPT !.writes = w]
            ELSE ForEachWriteUntilFailure(Tail(clients),
                     [writes |-> w,
                      delivered |-> [acc.delivered EXCEPT ![c] = @ + 1],
                      threw |-> FALSE])

\* variant: an index loop over an array from which a client whose write failed
\* is spliced during the pass, so that the client after it is skipped
RECURSIVE ForEachWriteSplicing(_, _)
ForEachWriteSplicing(clients, acc) ==
    IF clients = <<>> THEN acc
    ELSE LET c == Head(clients)
             open == transport[c] = "open"
             rest == IF ~open /\ Len(clients) > 1 THEN Tail(Tail(clients))
                     ELSE Tail(clients)
         IN ForEachWriteSplicing(rest,
                [writes |-> [acc.writes EXCEPT ![c] = @ + 1],
                 delivered |-> IF open
                               THEN [acc.delivered EXCEPT ![c] = @ + 1]
                               ELSE acc.delivered,
                 threw |-> FALSE])

\* variant: the loop starts at index 1 and misses the first client
ForEachWriteSkipsFirst(clients, acc) ==
    IF clients = <<>> THEN acc
    ELSE [writes |-> [c \in Conns |->
                        IF c \in Range(Tail(clients)) THEN 1 ELSE 0],
          delivered |-> [c \in Conns |->
                        IF c \in Range(Tail(clients)) /\ transport[c] = "open"
                        THEN 1 ELSE 0],
          threw |-> FALSE]

\* hotReloadClients.forEach((client) => client.write(...)): in array order; an
\* exception thrown by a write leaves the loop
RECURSIVE ForEachWrite(_, _)
ForEachWrite(clients, acc) ==
    IF clients = <<>> THEN acc
    ELSE LET c == Head(clients)
             o == ClientWrite(c)
             w == [acc.writes EXCEPT ![c] = @ + 1]
         IN IF o.threw
            THEN [acc EXCEPT !.writes = w, !.threw = TRUE]
            ELSE ForEachWrite(Tail(clients),
                     [writes |-> w,
                      delivered |-> IF o.delivered
                                    THEN [acc.delivered EXCEPT ![c] = @ + 1]
                                    ELSE acc.delivered,
                      threw |-> FALSE])

\* function broadcastReload(): the writes it makes, whether they reach the
\* peer, and whether it throws
broadcastReload ==
    ForEachWrite(hotReloadClients,
                 [writes |-> [c \in Conns |-> 0],
                  delivered |-> [c \in Conns |-> 0],
                  threw |-> FALSE])

\* the watcher events chokidar reports through "all"
WatcherEvents == {"add", "change", "unlink", "addDir", "unlinkDir"}

\* variant: the callback does not look at the kind of the event
ReloadEventsAnyKind == WatcherEvents

\* event === "add" || event === "change" || event === "unlink"
ReloadEvents == {"add", "change", "unlink"}

(***************************************************************************)
(* State machine                                                           *)
(***************************************************************************)
\* const hotReloadPort = 8888
hotReloadPort == 8888

\* what the dev command finds: its path argument ("missing", "notfound",
\* "ok"), whether the port is free, whether the JAR is there, whether the
\* java command can be spawned, whether chokidar could be required
DevEnvs ==
    [pathArg : {"missing", "notfound", "ok"}, portFree : BOOLEAN,
     jarFound : BOOLEAN, javaFound : BOOLEAN, chokidar : BOOLEAN]

\* the dev command before its first statement
DevStart(env) ==
    [env |-> env, phase |-> "main", listening |-> FALSE, listenCalls |-> 0,
     port |-> 0, java |-> "none", javaUrlPort |-> 0, javaCode |-> <<>>,
     watcher |-> FALSE, sigintHandler |-> FALSE, exitCode |-> <<>>]

\* the dev command once the callback of startHotReloadServer(...).then has
\* run: listening, java spawned, watcher installed, SIGINT handler registered
DevServing ==
    [DevStart([pathArg |-> "ok", portFree |-> TRUE, jarFound |-> TRUE,
               javaFound |-> TRUE, chokidar |-> TRUE])
     EXCEPT !.phase = "serving", !.listening = TRUE, !.listenCalls = 1,
            !.port = hotReloadPort, !.java = "running",
            !.javaUrlPort = hotReloadPort, !.watcher = TRUE,
            !.sigintHandler = TRUE]

\* the process runs the dev command, not build or init
NoCli == [command |-> "dev"]

\* the process runs build or init, not the dev command
NoDev == [phase |-> "none", listening |-> FALSE, watcher |-> FALSE,
          java |-> "none"]

\* the server of a dev command that is serving
Init ==
    /\ hotReloadClients = <<>>
    /\ nextRes = 1
    /\ transport = [c \in Conns |-> "none"]
    /\ resHeaders = [c \in Conns |-> NoHeaders]
    /\ writes = [c \in Conns |-> 0]
    /\ delivered = [c \in Conns |-> 0]
    /\ closeEvents = [c \in Conns |-> 0]
    /\ req = IdleReq
    /\ broadcasts = 0
    /\ raised = FALSE
    /\ procUp = TRUE
    /\ dev = DevServing
    /\ diskDelta = <<>>
    /\ cli = NoCli

\* variant: the handler of the reload endpoint waits for its connection to
\* close before it returns
HandlerRunningWhileSubscribed ==
    \E i \in 1..Len(hotReloadClients) : transport[hotReloadClients[i]] = "open"

\* a request handler is still running: never between two callbacks, the
\* handler of the reload endpoint returns once it has registered its close
\* listener and the static one once it has answered or called fs.readFile
HandlerRunning == FALSE

\* http.createServer((req, res) => {...}): one request, one fresh response
RequestHandler(url) ==
    /\ procUp
    /\ dev.listening
    /\ ~HandlerRunning
    /\ IF url = HotReloadUrl
       THEN /\ nextRes <= MaxConns
            /\ resHeaders' = WriteHead(resHeaders, nextRes, SseHeaders)
            /\ hotReloadClients' = PushClient(hotReloadClients, nextRes)
            /\ transport' = [transport EXCEPT ![nextRes] = "open"]
            /\ nextRes' = nextRes + 1
            /\ UNCHANGED req
       ELSE /\ req.phase = "idle"
            /\ req' = StaticResponses[url]
            /\ UNCHANGED <<hotReloadClients, nextRes, transport, resHeaders>>
    /\ UNCHANGED <<writes, delivered, closeEvents, broadcasts, raised, procUp,
                   dev, diskDelta, cli>>

\* variant: the callback stores the body it serves in the file it read
ReadFileCallbackWritesBack ==
    /\ procUp
    /\ req.phase = "reading"
    /\ req' = ReadFileDone(req)
    /\ diskDelta' = IF req'.status = 200
                    THEN (req.readPath :> req'.body) @@ diskDelta
                    ELSE diskDelta
    /\ UNCHANGED <<hotReloadClients, nextRes, transport, resHeaders, writes,
                   delivered, closeEvents, broadcasts, raised, procUp, dev,
                   cli>>

\* fs.readFile(filePath, (err, data) => {...}) calls back
ReadFileCallback ==
    /\ procUp
    /\ req.phase = "reading"
    /\ req' = ReadFileDone(req)
    /\ UNCHANGED <<hotReloadClients, nextRes, transport, resHeaders, writes,
                   delivered, closeEvents, broadcasts, raised, procUp, dev,
                   diskDelta, cli>>

\* res.end(...) has flushed the response: the server keeps nothing of the
\* request
ResFinish ==
    /\ procUp
    /\ req.phase = "done"
    /\ req' = IdleReq
    /\ UNCHANGED <<hotReloadClients, nextRes, transport, resHeaders, writes,
                   delivered, closeEvents, broadcasts, raised, procUp, dev,
                   diskDelta, cli>>

\* the peer of a subscriber goes away (environment)
PeerDisconnect(c) ==
    /\ procUp
    /\ transport[c] = "open"
    /\ transport' = [transport EXCEPT ![c] = "closed"]
    /\ UNCHANGED <<hotReloadClients, nextRes, resHeaders, writes, delivered,
                   closeEvents, req, broadcasts, raised, procUp, dev,
                   diskDelta, cli>>

\* res.on("close", () => {...}); the notification may be delivered again
OnClose(c) ==
    /\ procUp
    /\ transport[c] = "closed"
    /\ closeEvents[c] < MaxCloseNotifs
    /\ hotReloadClients' = FilterClients(hotReloadClients, c)
    /\ closeEvents' = [closeEvents EXCEPT ![c] = @ + 1]
    /\ UNCHANGED <<nextRes, transport, resHeaders, writes, delivered, req,
                   broadcasts, raised, procUp, dev,
                   diskDelta, cli>>

\* watcher.on("all", (event, filePath) => {...}): calls broadcastReload for
\* add, change and unlink; it has no try/catch, so an exception of
\* broadcastReload is an uncaught exception of the process
WatcherOnAll(event) ==
    /\ procUp
    /\ dev.watcher
    /\ IF event \in ReloadEvents
       THEN /\ broadcasts < MaxBroadcasts
            /\ LET r == broadcastReload
               IN /\ writes' = r.writes
                  /\ delivered' = r.delivered
                  /\ raised' = r.threw
                  /\ procUp' = ~r.threw
            /\ broadcasts' = broadcasts + 1
       ELSE UNCHANGED <<writes, delivered, raised, procUp, broadcasts>>
    /\ UNCHANGED <<hotReloadClients, nextRes, transport, resHeaders,
                   closeEvents, req, dev, diskDelta, cli>>

Next ==
    \/ \E url \in Urls : RequestHandler(url)
    \/ ReadFileCallback
    \/ ResFinish
    \/ \E c \in Conns : PeerDisconnect(c)
    \/ \E c \in Conns : OnClose(c)
    \/ \E event \in WatcherEvents : WatcherOnAll(event)

Spec == Init /\ [][Next]_vars

\* the same server, asked for the files of the root
FileNext ==
    \/ \E url \in FileUrls \cup {HotReloadUrl} : RequestHandler(url)
    \/ ReadFileCallback
    \/ ResFinish
    \/ \E c \in Conns : PeerDisconnect(c)
    \/ \E c \in Conns : OnClose(c)
    \/ \E event \in WatcherEvents : WatcherOnAll(event)

FileSpec == Init /\ [][FileNext]_vars

\* a file read is outstanding: its callback is the step that is enabled
ReadPending == procUp /\ req.phase = "reading"

\* fs.readFile always calls back: weak fairness of ReadFileCallback, written
\* out with its enabling condition (the callback always changes req.phase)
ReadFairSpec ==
    Spec /\ ([]<>(~ReadPending) \/ []<><<ReadFileCallback>>_vars)

\* the event loop runs every pending "close" callback
FairSpec == Spec /\ \A c \in Conns : WF_vars(OnClose(c))

(***************************************************************************)
(* The dev command from its first statement to the end of the process      *)
(***************************************************************************)
DevInit ==
    /\ hotReloadClients = <<>>
    /\ nextRes = 1
    /\ transport = [c \in Conns |-> "none"]
    /\ resHeaders = [c \in Conns |-> NoHeaders]
    /\ writes = [c \in Conns |-> 0]
    /\ delivered = [c \in Conns |-> 0]
    /\ closeEvents = [c \in Conns |-> 0]
    /\ req = IdleReq
    /\ broadcasts = 0
    /\ raised = FALSE
    /\ procUp = TRUE
    /\ dev \in {DevStart(env) : env \in DevEnvs}
    /\ diskDelta = <<>>
    /\ cli = NoCli

\* the process ends with exit code code[1], or without one (code = <<>>) when
\* a signal ends it: the listening socket and every
\* connection are closed by the operating system, the watcher and the heap
\* are gone (the heap's variables get their initial values)
ProcessExit(code, javaAfter) ==
    /\ procUp' = FALSE
    /\ dev' = [dev EXCEPT !.phase = "exited", !.listening = FALSE,
                          !.watcher = FALSE, !.sigintHandler = FALSE,
                          !.exitCode = code, !.java = javaAfter]
    /\ transport' = [c \in Conns |->
                        IF transport[c] = "open" THEN "terminated"
                        ELSE transport[c]]
    /\ hotReloadClients' = <<>>
    /\ nextRes' = 1
    /\ resHeaders' = [c \in Conns |-> NoHeaders]
    /\ writes' = [c \in Conns |-> 0]
    /\ delivered' = [c \in Conns |-> 0]
    /\ closeEvents' = [c \in Conns |-> 0]
    /\ req' = IdleReq
    /\ broadcasts' = 0
    /\ raised' = FALSE
    /\ UNCHANGED <<diskDelta, cli>>

\* variant: only the missing argument is refused, a path that does not exist
\* is served
DevCommandNoExistsCheck ==
    /\ procUp
    /\ dev.phase = "main"
    /\ IF dev.env.pathArg = "missing"
       THEN ProcessExit(<<1>>, dev.java)
       ELSE /\ dev' = [dev EXCEPT !.phase = "binding",
                                  !.listenCalls = @ + 1,
                                  !.port = hotReloadPort]
            /\ UNCHANGED <<hotReloadClients, nextRes, transport, resHeaders,
                           writes, delivered, closeEvents, req, broadcasts,
                           raised, procUp, diskDelta, cli>>

\* case "dev": the checks of the path argument, then startHotReloadServer,
\* which calls server.listen(port)
DevCommand ==
    /\ procUp
    /\ dev.phase = "main"
    /\ IF dev.env.pathArg # "ok"
       THEN ProcessExit(<<1>>, dev.java)
       ELSE /\ dev' = [dev EXCEPT !.phase = "binding",
                                  !.listenCalls = @ + 1,
                                  !.port = hotReloadPort]
            /\ UNCHANGED <<hotReloadClients, nextRes, transport, resHeaders,
                           writes, delivered, closeEvents, req, broadcasts,
                           raised, procUp,
                   diskDelta, cli>>

\* the callback of server.listen resolves the promise and the .then callback
\* runs: checkJar (exit 1 without a JAR), spawn java (the child runs, or the
\* spawn fails and "error" will be emitted), the watcher if chokidar is there,
\* the SIGINT handler
ListenCallback ==
    /\ procUp
    /\ dev.phase = "binding"
    /\ dev.env.portFree
    /\ IF ~dev.env.jarFound
       THEN ProcessExit(<<1>>, dev.java)
       ELSE /\ dev' = [dev EXCEPT !.phase = "serving", !.listening = TRUE,
                                  !.java = IF dev.env.javaFound
                                           THEN "running" ELSE "failed",
                                  !.javaUrlPort = hotReloadPort,
                                  !.watcher = dev.env.chokidar,
                                  !.sigintHandler = TRUE]
            /\ UNCHANGED <<hotReloadClients, nextRes, transport, resHeaders,
                           writes, delivered, closeEvents, req, broadcasts,
                           raised, procUp,
                   diskDelta, cli>>

\* variant: a listen that fails is tried again on the next port
ListenErrorRetries ==
    /\ procUp
    /\ dev.phase = "binding"
    /\ ~dev.env.portFree
    /\ dev' = [dev EXCEPT !.listenCalls = @ + 1, !.port = @ + 1,
                          !.env.portFree = TRUE]
    /\ UNCHANGED <<hotReloadClients, nextRes, transport, resHeaders, writes,
                   delivered, closeEvents, req, broadcasts, raised, procUp,
                   diskDelta, cli>>

\* the port cannot be bound: the server emits "error", which has no
\* listener, so the error is an uncaught exception: Node prints it and the
\* process ends with code 1; the promise is never resolved
ListenError ==
    /\ procUp
    /\ dev.phase = "binding"
    /\ ~dev.env.portFree
    /\ ProcessExit(<<1>>, dev.java)

\* variant: the handler closes the server and signals java, and returns
SigintWithoutExit ==
    /\ procUp
    /\ dev.phase \in {"binding", "serving"}
    /\ dev.sigintHandler
    /\ dev' = [dev EXCEPT !.listening = FALSE, !.watcher = FALSE,
                          !.java = IF @ = "running" THEN "signalled" ELSE @]
    /\ UNCHANGED <<hotReloadClients, nextRes, transport, resHeaders, writes,
                   delivered, closeEvents, req, broadcasts, raised, procUp,
                   diskDelta, cli>>

\* SIGINT arrives.  With the handler registered: watcher.close() (if any),
\* server.close(), javaProcess.kill("SIGTERM"), process.exit(0).  Before that
\* the signal has its default effect and ends the process.
Sigint ==
    /\ procUp
    /\ dev.phase \in {"binding", "serving"}
    /\ IF dev.sigintHandler
       THEN ProcessExit(<<0>>, IF dev.java = "running" THEN "signalled"
                               ELSE dev.java)
       ELSE ProcessExit(<<>>, dev.java)

\* the results a java child ends with: no code (ended by a signal), 0, 1,
\* another code
JavaCodes == {<<>>, <<0>>, <<1>>, <<3>>}

\* the java child ends (environment)
JavaExit(code) ==
    /\ procUp
    /\ dev.java = "running"
    /\ dev' = [dev EXCEPT !.java = "exited", !.javaCode = code]
    /\ UNCHANGED <<hotReloadClients, nextRes, transport, resHeaders, writes,
                   delivered, closeEvents, req, broadcasts, raised, procUp,
                   diskDelta, cli>>

\* variant: the callback ends the process with code 1 whenever the child did
\* not end with 0
JavaOnCloseExitsOne ==
    /\ procUp
    /\ dev.java = "exited"
    /\ ProcessExit(IF dev.javaCode \in {<<>>, <<0>>} THEN <<0>> ELSE <<1>>,
                   dev.java)

\* javaProcess.on("close", (code) => {...}): server.close(),
\* process.exit(code || 0)
JavaOnClose ==
    /\ procUp
    /\ dev.java = "exited"
    /\ ProcessExit(IF dev.javaCode = <<>> THEN <<0>> ELSE dev.javaCode,
                   dev.java)

\* javaProcess.on("error", (err) => {...}): the spawn failed; server.close(),
\* process.exit(1)
JavaOnError ==
    /\ procUp
    /\ dev.java = "failed"
    /\ ProcessExit(<<1>>, dev.java)

\* the requests of the dev command's runs
DevUrls == {Slash, HotReloadUrl}

DevNext ==
    \/ DevCommand
    \/ ListenCallback
    \/ ListenError
    \/ Sigint
    \/ \E code \in JavaCodes : JavaExit(code)
    \/ JavaOnClose
    \/ JavaOnError
    \/ \E url \in DevUrls : RequestHandler(url)
    \/ ReadFileCallback
    \/ ResFinish
    \/ \E c \in Conns : PeerDisconnect(c)
    \/ \E c \in Conns : OnClose(c)
    \/ \E event \in WatcherEvents : WatcherOnAll(event)

DevSpec == DevInit /\ [][DevNext]_vars

(***************************************************************************)
(* The build command: three steps, each a synchronous run of fs calls and  *)
(* of one external command (execSync), in a try block whose catch ends the *)
(* process with code 1                                                     *)
(***************************************************************************)
\* what the build command finds: whether npm run prepare-build succeeds,
\* whether caffeine-build and dist-native are left from an earlier build,
\* whether the JAR is there, whether dist exists after step 1, whether jar uf
\* succeeds, whether package.json can be read and parsed, the name in it
\* ("" when it has none), whether jpackage succeeds
BuildEnvs ==
    [prepareOk : BOOLEAN, buildDirExists : BOOLEAN, jarFound : BOOLEAN,
     distExists : BOOLEAN, jarUfOk : BOOLEAN, distNativeExists : BOOLEAN,
     pkgReadable : BOOLEAN, pkgName : {"", "my-app"}, jpackageOk : BOOLEAN]

\* the build command before its first step
BuildStart(env) ==
    [command |-> "build", env |-> env, pc |-> "step1", started |-> <<>>,
     completed |-> <<>>,
     buildDir |-> IF env.buildDirExists THEN "old" ELSE "absent",
     prodJar |-> FALSE, staged |-> FALSE, embedded |-> FALSE,
     distNative |-> IF env.distNativeExists THEN "old" ELSE "absent",
     appName |-> "", success |-> FALSE, exitCode |-> <<>>]

BuildInit ==
    /\ hotReloadClients = <<>>
    /\ nextRes = 1
    /\ transport = [c \in Conns |-> "none"]
    /\ resHeaders = [c \in Conns |-> NoHeaders]
    /\ writes = [c \in Conns |-> 0]
    /\ delivered = [c \in Conns |-> 0]
    /\ closeEvents = [c \in Conns |-> 0]
    /\ req = IdleReq
    /\ broadcasts = 0
    /\ raised = FALSE
    /\ procUp = TRUE
    /\ dev = NoDev
    /\ diskDelta = <<>>
    /\ cli \in {BuildStart(env) : env \in BuildEnvs}

\* the build or init command ends the process with code code: c is the
\* command's record at that moment
CliExit(c, code) ==
    /\ cli' = [c EXCEPT !.pc = "exited", !.exitCode = <<code>>]
    /\ procUp' = FALSE
    /\ UNCHANGED <<hotReloadClients, nextRes, transport, resHeaders, writes,
                   delivered, closeEvents, req, broadcasts, raised, dev,
                   diskDelta>>

\* the build or init command goes on: c is the command's record
CliGoesOn(c) ==
    /\ cli' = c
    /\ UNCHANGED <<hotReloadClients, nextRes, transport, resHeaders, writes,
                   delivered, closeEvents, req, broadcasts, raised, procUp,
                   dev, diskDelta>>

\* variant: the catch block of step 1 logs the failure and goes on
BuildPrepareGoesOn ==
    /\ procUp
    /\ cli.command = "build"
    /\ cli.pc = "step1"
    /\ CliGoesOn([cli EXCEPT !.started = Append(@, 1),
                             !.completed = IF cli.env.prepareOk
                                           THEN Append(@, 1) ELSE @,
                             !.pc = "step2"])

\* step 1: execSync("npm run prepare-build"); catch: process.exit(1)
BuildPrepare ==
    /\ procUp
    /\ cli.command = "build"
    /\ cli.pc = "step1"
    /\ LET c == [cli EXCEPT !.started = Append(@, 1)]
       IN IF cli.env.prepareOk
          THEN CliGoesOn([c EXCEPT !.completed = Append(@, 1),
                                   !.pc = "step2"])
          ELSE CliExit(c, 1)

\* step 2: a fresh caffeine-build, checkJar (process.exit(1) without a JAR),
\* the copy of the JAR, and, if dist exists (a warning if not), the staged
\* copy of dist and execSync("jar uf ..."); catch: process.exit(1)
BuildEmbed ==
    /\ procUp
    /\ cli.command = "build"
    /\ cli.pc = "step2"
    /\ LET c0 == [cli EXCEPT !.started = Append(@, 2), !.buildDir = "new"]
           c1 == [c0 EXCEPT !.prodJar = TRUE]
           c2 == [c1 EXCEPT !.staged = TRUE]
           done(c) == [c EXCEPT !.completed = Append(@, 2), !.pc = "step3"]
       IN IF ~cli.env.jarFound THEN CliExit(c0, 1)
          ELSE IF ~cli.env.distExists THEN CliGoesOn(done(c1))
          ELSE IF ~cli.env.jarUfOk THEN CliExit(c2, 1)
          ELSE CliGoesOn(done([c2 EXCEPT !.embedded = TRUE]))

\* step 3: dist-native removed, package.json read and parsed, execSync of
\* jpackage; catch: process.exit(1).  Then the report of success; main
\* returns and the process ends with code 0.
BuildNative ==
    /\ procUp
    /\ cli.command = "build"
    /\ cli.pc = "step3"
    /\ LET c0 == [cli EXCEPT !.started = Append(@, 3),
                             !.distNative = "absent"]
           c1 == [c0 EXCEPT !.appName = IF cli.env.pkgName = ""
                                        THEN "CaffeineApp"
                                        ELSE cli.env.pkgName]
       IN IF ~cli.env.pkgReadable THEN CliExit(c0, 1)
          ELSE IF ~cli.env.jpackageOk THEN CliExit(c1, 1)
          ELSE CliExit([c1 EXCEPT !.distNative = "new",
                                  !.completed = Append(@, 3),
                                  !.success = TRUE], 0)

BuildNext ==
    \/ BuildPrepare
    \/ BuildEmbed
    \/ BuildNative

BuildSpec == BuildInit /\ [][BuildNext]_vars

(***************************************************************************)
(* The init command.  A path is a sequence of segments, relative to the    *)
(* working directory (the target) or to __dirname (the template); the      *)
(* contents of a file are a sequence of strings, for a JSON object its     *)
(* keys and values in turn: key, value, key, value, ...                    *)
(***************************************************************************)
PackageJson == "package.json"
TemplateDir == "template"

\* JSON.parse of an object: its members in the order of their first
\* occurrence, a repeated key having its last value
RECURSIVE JsonParse(_)
JsonParse(text) ==
    IF Len(text) < 2 THEN <<>>
    ELSE LET n == Len(text)
             key == text[n - 1]
             val == text[n]
             before == JsonParse(SubSeq(text, 1, n - 2))
         IN IF \E i \in 1..Len(before) : before[i][1] = key
            THEN [i \in 1..Len(before) |->
                     IF before[i][1] = key THEN <<key, val>> ELSE before[i]]
            ELSE Append(before, <<key, val>>)

\* JSON.stringify(obj, null, 2): the members in the object's order
RECURSIVE JsonStringify(_)
JsonStringify(obj) ==
    IF obj = <<>> THEN <<>>
    ELSE <<obj[1][1], obj[1][2]>> \o JsonStringify(Tail(obj))

\* variant: a new object with the name only is written
SetNameOnly(obj, name) == <<<<"name", name>>>>

\* appPackage.name = projectName: in place if the key is there, else added
\* at the end
SetName(obj, name) ==
    IF \E i \in 1..Len(obj) : obj[i][1] = "name"
    THEN [i \in 1..Len(obj) |->
             IF obj[i][1] = "name" THEN <<"name", name>> ELSE obj[i]]
    ELSE Append(obj, <<"name", name>>)

\* the package.json files a template may hold: with the name first, in the
\* middle, absent, with a repeated key, with the name only
Manifests ==
    {<<"name", "caffeine-app", "version", "1.0.0", "main", "index.js">>,
     <<"version", "1.0.0", "name", "caffeine-app", "private", "true">>,
     <<"version", "1.0.0", "main", "index.js">>,
     <<"version", "0.1.0", "name", "caffeine-app", "version", "1.0.0">>,
     <<"name", "caffeine-app">>}

\* the files of the template besides package.json
TemplateFiles ==
    (<<"README.md">> :> <<"# Caffeine">>)
    @@ (<<"frontend", "main.js">> :> <<"console.log(1)">>)

\* what the init command finds: its name argument ("" when there is none),
\* whether the target directory exists, whether the template directory
\* exists, the template's package.json
InitEnvs ==
    [projectName : {"", "app", "my-app"}, targetExists : BOOLEAN,
     templateExists : BOOLEAN, manifest : Manifests]

\* the file system at the start of the init command
InitFs(env) ==
    (IF env.templateExists
     THEN (<<TemplateDir, PackageJson>> :> env.manifest)
          @@ [p \in {<<TemplateDir>> \o q : q \in DOMAIN TemplateFiles} |->
                 TemplateFiles[Tail(p)]]
     ELSE <<>>)
    @@ (IF env.targetExists /\ env.projectName # ""
        THEN (<<env.projectName, "notes.txt">> :> <<"mine">>)
        ELSE <<>>)

\* the init command before its first statement
InitStart(env) ==
    [command |-> "init", env |-> env, pc |-> "main", fs |-> InitFs(env),
     exitCode |-> <<>>]

InitInit ==
    /\ hotReloadClients = <<>>
    /\ nextRes = 1
    /\ transport = [c \in Conns |-> "none"]
    /\ resHeaders = [c \in Conns |-> NoHeaders]
    /\ writes = [c \in Conns |-> 0]
    /\ delivered = [c \in Conns |-> 0]
    /\ closeEvents = [c \in Conns |-> 0]
    /\ req = IdleReq
    /\ broadcasts = 0
    /\ raised = FALSE
    /\ procUp = TRUE
    /\ dev = NoDev
    /\ diskDelta = <<>>
    /\ cli \in {InitStart(env) : env \in InitEnvs}

\* fs.existsSync(dir): some file lies below dir
DirExists(fs, dir) == \E p \in DOMAIN fs : Len(p) > 1 /\ p[1] = dir

\* fs.cpSync(from, to, { recursive: true })
CpSync(fs, from, to) ==
    [p \in {<<to>> \o Tail(q) : q \in {r \in DOMAIN fs : r[1] = from}} |->
        fs[<<from>> \o Tail(p)]]
    @@ fs

\* case "init": the three checks, each ending the process with code 1; the
\* copy of the template; the rewrite of package.json with the project name;
\* main returns and the process ends with code 0
InitCommand ==
    /\ procUp
    /\ cli.command = "init"
    /\ cli.pc = "main"
    /\ LET projectName == cli.env.projectName
           appPackagePath == <<projectName, PackageJson>>
           copied == CpSync(cli.fs, TemplateDir, projectName)
           appPackage == SetName(JsonParse(copied[appPackagePath]),
                                 projectName)
       IN IF projectName = "" THEN CliExit(cli, 1)
          ELSE IF DirExists(cli.fs, projectName) THEN CliExit(cli, 1)
          ELSE IF ~DirExists(cli.fs, TemplateDir) THEN CliExit(cli, 1)
          ELSE CliExit([cli EXCEPT !.fs =
                           (appPackagePath :> JsonStringify(appPackage))
                           @@ copied], 0)

InitNext == InitCommand

InitSpec == InitInit /\ [][InitNext]_vars

(***************************************************************************)
(* Properties                                                              *)
(***************************************************************************)
InRegistry(c) == c \in Range(hotReloadClients)

Count(clients, c) == Cardinality({i \in 1..Len(clients) : clients[i] = c})

\* a step in which broadcastReload ran
BroadcastStep == broadcasts' = broadcasts + 1

\* p is the root directory or lies below it
Contained(p) == p = frontendPath \/ StartsWith(p, frontendPath \o Slash)

\* C1: every path handed to fs.readFile is the root or a descendant of it, and
\* a request whose joined, normalised path lies outside the root (a sibling
\* whose name starts with the root's name included) is answered 403 without a
\* file read.
C1_Containment ==
    /\ req.readPath # <<>> => Contained(req.readPath)
    /\ (req.phase # "idle" /\ ~Contained(req.filePath))
           => (req.status = 403 /\ req.readPath = <<>>)

\* C2: one broadcastReload call makes exactly one write to every connection of
\* the registry, as many writes as the registry has members, and none to a
\* connection whose close notification was processed before the call.
C2_FanOut ==
    [][BroadcastStep =>
          \A c \in Conns :
              /\ InRegistry(c) => writes'[c] = 1
              /\ ~InRegistry(c) => writes'[c] = 0
              /\ closeEvents[c] >= 1 => writes'[c] = 0
              /\ (InRegistry(c) /\ transport[c] = "open") => delivered'[c] = 1]_vars

C2_Witness ==
    /\ broadcasts >= 1
    /\ Len(hotReloadClients) = 2
    /\ \A i \in 1..2 : writes[hotReloadClients[i]] = 1
                        /\ delivered[hotReloadClients[i]] = 1

\* C3: when the write to one connection of the registry fails during a
\* broadcastReload call (its transport is closed), every other connection of
\* the registry is still written to in that call, and receives the event if
\* its own transport is open.
C3_FailureIsolation ==
    [][BroadcastStep =>
          \A f \in Conns :
              (InRegistry(f) /\ transport[f] = "closed") =>
                  \A c \in Conns \ {f} :
                      InRegistry(c) =>
                          /\ writes'[c] = 1
                          /\ transport[c] = "open" => delivered'[c] = 1]_vars

C3_Witness ==
    /\ Len(hotReloadClients) = 2
    /\ writes[hotReloadClients[1]] = 1
    /\ delivered[hotReloadClients[1]] = 0
    /\ delivered[hotReloadClients[2]] = 1

\* C4: a subscriber whose transport was closed before a broadcastReload call
\* is absent from the registry when the call returns, whether or not its close
\* notification was processed before the call.
C4_PrunedAfterBroadcast ==
    [][BroadcastStep =>
          \A c \in Conns :
              transport[c] = "closed" => c \notin Range(hotReloadClients')]_vars

\* C5: broadcastReload never throws to the watcher callback because of a dead
\* connection, and no request, close notification or broadcast ends the
\* server process.
C5_NeverRaises == procUp /\ ~raised

C5_Witness ==
    /\ procUp
    /\ ~raised
    /\ \E c \in Conns : InRegistry(c) /\ writes[c] = 1 /\ delivered[c] = 0

\* C6: every connection appears in the registry at most once.
C6_NoDuplicates == \A c \in Conns : Count(hotReloadClients, c) <= 1

C6_Witness ==
    /\ Len(hotReloadClients) = 2
    /\ hotReloadClients[1] # hotReloadClients[2]

\* C7: a member of the registry has had its event-stream headers written, and
\* a response gets those headers in exactly the step that adds it to the
\* registry.
C7_SubscribeOrdering ==
    /\ [](\A c \in Conns :
              InRegistry(c) =>
                  resHeaders[c] = [status |-> 200,
                                   contentType |-> "text/event-stream",
                                   cacheControl |-> "no-cache",
                                   connection |-> "keep-alive"])
    /\ [][\A c \in Conns :
              (resHeaders'[c] # resHeaders[c])
                  <=> (~InRegistry(c) /\ c \in Range(hotReloadClients'))]_vars

C7_Witness ==
    /\ Len(hotReloadClients) = 2
    /\ \A c \in Conns : InRegistry(c) => resHeaders[c].status = 200

\* every subscriber so far has disconnected and had its close notification
\* processed
AllClosedProcessed ==
    \A c \in Conns :
        transport[c] # "none" => (transport[c] = "closed" /\ closeEvents[c] >= 1)

\* C8: a subscriber whose peer disconnected is eventually out of the registry
\* (close notifications being processed fairly), stays out, is never written
\* to by a later broadcast, and the registry is empty once every subscriber
\* has disconnected and been processed.
C8_RemovalOnDisconnect ==
    /\ \A c \in Conns : (transport[c] = "closed") ~> ~InRegistry(c)
    /\ [](\A c \in Conns : closeEvents[c] >= 1 => ~InRegistry(c))
    /\ [][BroadcastStep =>
              \A c \in Conns : closeEvents[c] >= 1 => writes'[c] = 0]_vars
    /\ [](AllClosedProcessed => hotReloadClients = <<>>)

C8_Witness ==
    /\ nextRes > 2
    /\ AllClosedProcessed
    /\ broadcasts >= 1
    /\ hotReloadClients = <<>>

\* C9: a close notification for a connection that is not in the registry (a
\* second notification for the same connection) leaves the registry as it is
\* and raises nothing.
C9_IdempotentRemoval ==
    [][\A c \in Conns :
          (closeEvents'[c] = closeEvents[c] + 1 /\ ~InRegistry(c))
              => (hotReloadClients' = hotReloadClients /\ procUp' /\ ~raised')]_vars

C9_Witness ==
    \E c, d \in Conns :
        /\ c # d
        /\ closeEvents[c] = 2
        /\ hotReloadClients = <<d>>
        /\ writes[d] = 1
        /\ delivered[d] = 1

\* C10: a request whose joined path fails the startsWith check is answered
\* 403 "Forbidden" at once, no file is read for it, and the step leaves the
\* registry as it is.
C10_ForbiddenNoRead ==
    /\ []((req.phase # "idle" /\ ~StartsWith(req.filePath, frontendPath))
             => /\ req.phase = "done"
                /\ req.status = 403
                /\ req.body = <<"Forbidden">>
                /\ req.readPath = <<>>)
    /\ [][(req' # req /\ req'.status = 403)
             => hotReloadClients' = hotReloadClients]_vars

C10_Witness ==
    /\ req.phase = "done"
    /\ req.status = 403
    /\ req.readPath = <<>>
    /\ Len(hotReloadClients) >= 1

\* positions at which pat occurs in s
Occurrences(s, pat) ==
    {i \in 1..(Len(s) - Len(pat) + 1) : SubSeq(s, i, i + Len(pat) - 1) = pat}

\* s with ins put in front of position i
InsertAt(s, i, ins) == SubSeq(s, 1, i - 1) \o ins \o SubSeq(s, i, Len(s))

\* the observed request was answered 200 with a file whose name ends in .html
ServedHtml ==
    /\ req.phase = "done"
    /\ req.status = 200
    /\ EndsWith(req.filePath, <<".", "h", "t", "m", "l">>)

\* C11: the served body of an HTML file with a closing body tag is the file
\* with the snippet put once, right in front of a closing body tag, and
\* nothing else changed; the served body of an HTML file without a closing
\* body tag is the file, byte for byte.
C11_Injection ==
    ServedHtml =>
        LET src == disk[req.readPath]
            tags == Occurrences(src, BodyTag)
        IN IF tags # {}
           THEN /\ \E i \in tags : req.body = InsertAt(src, i, hotReloadScript)
                /\ Cardinality(Occurrences(req.body, hotReloadScript)) = 1
           ELSE req.body = src

\* C12: for an HTML file with more than one closing body tag the snippet is
\* put once, right in front of the last of them.
C12_BeforeLastTag ==
    ServedHtml =>
        LET src == disk[req.readPath]
            tags == Occurrences(src, BodyTag)
        IN Cardinality(tags) > 1 =>
               LET last == CHOOSE i \in tags : \A j \in tags : j <= i
               IN req.body = InsertAt(src, last, hotReloadScript)

\* the content type the mapping gives to an extension
TypeOfExtension(ext) ==
    CASE ext = <<".", "h", "t", "m", "l">> -> "text/html"
      [] ext = <<".", "c", "s", "s">> -> "text/css"
      [] ext = <<".", "j", "s">> -> "application/javascript"
      [] ext = <<".", "j", "s", "o", "n">> -> "application/json"
      [] ext = <<".", "p", "n", "g">> -> "image/png"
      [] ext = <<".", "j", "p", "g">> -> "image/jpeg"
      [] ext = <<".", "g", "i", "f">> -> "image/gif"
      [] ext = <<".", "s", "v", "g">> -> "image/svg+xml"
      [] OTHER -> "text/plain"

\* C13: a file served with 200 has the content type of its extension, and
\* text/plain if the extension is not in the mapping or there is none.
C13_ContentType ==
    (req.phase = "done" /\ req.status = 200) =>
        req.contentType = TypeOfExtension(PathExtname(req.filePath))

C13_Witness ==
    /\ req.phase = "done"
    /\ req.status = 200
    /\ PathExtname(req.filePath) = <<".", "j", "p", "e", "g">>
    /\ req.contentType = "text/plain"

\* the observed request passed the startsWith check and fs.readFile failed
ReadFailed ==
    /\ req.phase = "done"
    /\ req.readPath # <<>>
    /\ ReadFile(req.readPath).err

\* C14: a request that passes the startsWith check and whose file is missing,
\* lies below a regular file or is a directory is answered 404 "Not Found";
\* the server process stays up, finishes the response and then handles the
\* next request; the steps of such a request leave the registry as it is.
C14_NotFound ==
    /\ [](ReadFailed =>
             /\ req.status = 404
             /\ req.body = <<"Not Found">>
             /\ procUp
             /\ ENABLED ResFinish)
    /\ []((procUp /\ req.phase = "idle") => ENABLED RequestHandler(Slash))
    /\ [][(req' # req /\ (req'.status = 404 \/ req.status = 404))
             => (hotReloadClients' = hotReloadClients /\ procUp')]_vars

C14_Witness ==
    /\ ReadFailed
    /\ req.status = 404
    /\ ReadFile(req.readPath).code = "EISDIR"
    /\ Len(hotReloadClients) >= 1

\* the subscribers whose connection is open
OpenSubscribers == {c \in Conns : InRegistry(c) /\ transport[c] = "open"}

\* C15: with any number of open subscribers the server handles a static
\* request and a further subscribe request: the handler is enabled, and its
\* step runs to the end of the handler (the answer or the fs.readFile call;
\* the headers and the registration).
C15_SubscribersDoNotBlock ==
    /\ []((OpenSubscribers # {} /\ procUp /\ req.phase = "idle")
             => \A url \in StaticUrls : ENABLED RequestHandler(url))
    /\ []((OpenSubscribers # {} /\ procUp /\ nextRes <= MaxConns)
             => ENABLED RequestHandler(HotReloadUrl))
    /\ [][(OpenSubscribers # {} /\ req.phase = "idle" /\ req' # req)
             => req'.phase \in {"reading", "done"}]_vars
    /\ [][(OpenSubscribers # {} /\ nextRes' # nextRes)
             => /\ hotReloadClients' = Append(hotReloadClients, nextRes)
                /\ resHeaders'[nextRes].status = 200
                /\ transport'[nextRes] = "open"]_vars

C15_Witness ==
    /\ Cardinality(OpenSubscribers) = 2
    /\ req.phase = "done"
    /\ req.status = 200

\* the sum of f over S
RECURSIVE SumOf(_, _)
SumOf(f, S) ==
    IF S = {} THEN 0
    ELSE LET c == CHOOSE x \in S : TRUE IN f[c] + SumOf(f, S \ {c})

\* C16: one broadcastReload pass visits each element of the registry as it
\* was when the pass began exactly once (as many visits of a connection as it
\* has entries, as many visits in all as the registry is long), and the pass
\* does not change the registry; this holds after earlier removals and
\* subscriptions.
C16_StableIteration ==
    [][BroadcastStep =>
          /\ \A c \in Conns : writes'[c] = Count(hotReloadClients, c)
          /\ SumOf(writes', Conns) = Len(hotReloadClients)
          /\ hotReloadClients' = hotReloadClients]_vars

C16_Witness ==
    /\ broadcasts = 2
    /\ \E c, d \in Conns :
           /\ closeEvents[c] = 1
           /\ hotReloadClients = <<d>>
           /\ c < d
           /\ writes[c] = 0
           /\ writes[d] = 1

\* C17: SIGINT while the dev server runs (its handler is registered) closes
\* the listening socket, terminates every open subscriber connection without
\* a close by the peer, signals a running java child, and ends the process
\* with code 0; after that no connection is open.
C17_GracefulShutdown ==
    /\ [][(Sigint /\ dev.phase = "serving") =>
              /\ ~dev'.listening
              /\ \A c \in Conns :
                     /\ transport[c] = "open" => transport'[c] = "terminated"
                     /\ transport'[c] # "open"
              /\ dev.java = "running" => dev'.java = "signalled"
              /\ dev'.exitCode = <<0>>
              /\ ~procUp']_vars
    /\ [](dev.phase = "serving" => dev.sigintHandler)
    /\ [](~procUp => (~dev.listening /\ \A c \in Conns : transport[c] # "open"))

C17_Witness ==
    /\ ~procUp
    /\ dev.exitCode = <<0>>
    /\ dev.java = "signalled"
    /\ \A c \in Conns : transport[c] = "terminated"

\* C18: when the port cannot be bound the process ends with code 1 from the
\* binding step; server.listen is called once, on port 8888 only; the java
\* child is never spawned, the server never listens or serves.
C18_BindFailureFatal ==
    /\ [](dev.listenCalls <= 1)
    /\ [](dev.listenCalls = 1 => dev.port = 8888)
    /\ [](~dev.env.portFree =>
             (dev.java = "none" /\ ~dev.listening /\ dev.phase # "serving"))
    /\ []((procUp /\ dev.phase = "binding" /\ ~dev.env.portFree)
             => ENABLED ListenError)
    /\ [][ListenError =>
              (~procUp' /\ dev'.exitCode = <<1>> /\ dev'.java = "none"
               /\ dev'.listenCalls = 1)]_vars
    /\ [][(dev.phase = "binding" /\ ~dev.env.portFree /\ dev' # dev)
              => dev'.phase = "exited"]_vars

C18_Witness ==
    /\ dev.phase = "exited"
    /\ dev.env.pathArg = "ok"
    /\ ~dev.env.portFree
    /\ dev.exitCode = <<1>>
    /\ dev.listenCalls = 1
    /\ dev.java = "none"

\* a step of the handling of a static request: the handler, the callback of
\* fs.readFile, the end of the response
StaticStep == req' # req

\* C19: every step of the handling of a request that is not for the reload
\* endpoint, whether it is answered 200, 403 or 404, leaves the registry, the
\* subscribers' connections and headers, and the files on disk as they are.
C19_StaticNoSideEffects ==
    [][StaticStep =>
          /\ hotReloadClients' = hotReloadClients
          /\ disk' = disk
          /\ transport' = transport
          /\ resHeaders' = resHeaders]_vars

C19_Witness ==
    /\ req.phase = "done"
    /\ req.status = 200
    /\ req.injected
    /\ req.body # disk[req.readPath]
    /\ disk = Disk
    /\ Len(hotReloadClients) = 2

\* the watcher callback can run (the bound of the model leaves room for
\* another broadcast)
WatcherCanReport == procUp /\ dev.watcher /\ broadcasts < MaxBroadcasts

\* C20: the watcher callback calls broadcastReload exactly once for an event
\* add, change or unlink, whatever came before (also right after another
\* broadcast: nothing is debounced or merged), so that the calls follow the
\* events one for one; it calls nothing for addDir and unlinkDir; and
\* broadcastReload is called by nothing else.
C20_WatcherTriggers ==
    /\ [](WatcherCanReport =>
             \A event \in {"add", "change", "unlink"} :
                 ENABLED (WatcherOnAll(event) /\ broadcasts' = broadcasts + 1))
    /\ [][\A event \in {"add", "change", "unlink"} :
              WatcherOnAll(event) => broadcasts' = broadcasts + 1]_vars
    /\ [][\A event \in {"addDir", "unlinkDir"} :
              WatcherOnAll(event) =>
                  (broadcasts' = broadcasts /\ writes' = writes
                   /\ delivered' = delivered)]_vars
    /\ [][broadcasts' # broadcasts =>
              /\ broadcasts' = broadcasts + 1
              /\ \E event \in {"add", "change", "unlink"} :
                     WatcherOnAll(event)]_vars

C20_Witness ==
    /\ broadcasts = 2
    /\ hotReloadClients = <<1>>
    /\ nextRes = 2
    /\ writes[1] = 1
    /\ delivered[1] = 1

\* the server does not end the response of a subscriber: an open connection
\* stops being open only when its peer goes away
C21_NeverEndedByServer ==
    [][\A c \in Conns :
          (transport[c] = "open" /\ transport'[c] # "open")
              => PeerDisconnect(c)]_vars

\* a connection leaves the registry only after its peer has closed it
C21_LeavesOnlyWhenClosed ==
    [][\A c \in Conns :
          (InRegistry(c) /\ c \notin Range(hotReloadClients'))
              => transport[c] = "closed"]_vars

\* a processed close has removed the connection
C21_ClosedIsRemoved ==
    \A c \in Conns : closeEvents[c] >= 1 => ~InRegistry(c)

\* a write of a broadcastReload pass that does not go through removes the
\* connection
C21_WriteFailureIsRemoved ==
    [][BroadcastStep =>
          \A c \in Conns :
              (InRegistry(c) /\ writes'[c] >= 1 /\ delivered'[c] = 0)
                  => c \notin Range(hotReloadClients')]_vars

\* only a connection that was never subscribed enters the registry
C21_NeverReenters ==
    [][\A c \in Conns :
          (~InRegistry(c) /\ c \in Range(hotReloadClients'))
              => (transport[c] = "none" /\ closeEvents[c] = 0)]_vars

\* C21: the server never ends a subscriber's response; a subscriber leaves
\* the registry only through a close by its peer or a failed write of a
\* broadcast; either of the two removes it from the registry; and a removed
\* connection is never put back.
C21_ConnectionLifecycle ==
    /\ C21_NeverEndedByServer
    /\ C21_LeavesOnlyWhenClosed
    /\ []C21_ClosedIsRemoved
    /\ C21_WriteFailureIsRemoved
    /\ C21_NeverReenters

\* C22: when the java child has ended with exit code c, its close callback
\* closes the server and ends the process with code c, and with code 0 when
\* the child has no exit code (a signal ended it); the callback can run
\* whenever the child has ended and the process is up.
C22_ExitCodeRelay ==
    /\ [][JavaOnClose =>
              /\ ~dev'.listening
              /\ ~procUp'
              /\ \A code \in {<<0>>, <<1>>, <<3>>} :
                     dev.javaCode = code => dev'.exitCode = code
              /\ dev.javaCode = <<>> => dev'.exitCode = <<0>>]_vars
    /\ []((procUp /\ dev.java = "exited") => ENABLED JavaOnClose)

C22_Witness ==
    /\ dev.phase = "exited"
    /\ dev.java = "exited"
    /\ dev.javaCode = <<3>>
    /\ dev.exitCode = <<3>>
    /\ \E c \in Conns : transport[c] = "terminated"

\* C23: the build command starts its steps in the order 1, 2, 3, each after
\* the one before it has completed; a step that fails ends the process with
\* code 1 and no later step is started; success is reported only when all
\* three steps have completed, and then the process ends with code 0.
C23_BuildOrder ==
    /\ [](\E n \in 0..3 : cli.started = SubSeq(<<1, 2, 3>>, 1, n))
    /\ [](\E n \in 0..3 : cli.completed = SubSeq(<<1, 2, 3>>, 1, n))
    /\ [](Len(cli.completed) <= Len(cli.started)
            /\ Len(cli.started) <= Len(cli.completed) + 1)
    /\ [](Len(cli.started) > Len(cli.completed)
             => (cli.pc = "exited" /\ cli.exitCode = <<1>> /\ ~cli.success))
    /\ [](cli.success <=> cli.completed = <<1, 2, 3>>)
    /\ [](cli.success => cli.exitCode = <<0>>)
    /\ [][cli.pc = "exited" => cli' = cli]_vars
    /\ [][(BuildPrepare /\ ~cli.env.prepareOk) => cli'.exitCode = <<1>>]_vars
    /\ [][(BuildEmbed /\ (~cli.env.jarFound
                           \/ (cli.env.distExists /\ ~cli.env.jarUfOk)))
              => cli'.exitCode = <<1>>]_vars
    /\ [][(BuildNative /\ (~cli.env.pkgReadable \/ ~cli.env.jpackageOk))
              => cli'.exitCode = <<1>>]_vars

C23_Witness ==
    /\ cli.pc = "exited"
    /\ cli.started = <<1, 2>>
    /\ cli.completed = <<1>>
    /\ cli.exitCode = <<1>>
    /\ cli.prodJar
    /\ ~cli.embedded

\* the value of key k in the JSON object of text, "" if it has none
JsonField(text, k) ==
    LET obj == JsonParse(text)
        at == {i \in 1..Len(obj) : obj[i][1] = k}
    IN IF at = {} THEN "" ELSE obj[CHOOSE i \in at : TRUE][2]

\* the keys of the JSON object of text
JsonKeys(text) ==
    LET obj == JsonParse(text) IN {obj[i][1] : i \in 1..Len(obj)}

\* the init command has nothing to do: no name, the target exists, or there
\* is no template
InitRefused ==
    \/ cli.env.projectName = ""
    \/ cli.env.targetExists
    \/ ~cli.env.templateExists

\* C24: init without a name, with an existing target directory or without a
\* template ends with code 1 and changes no file; otherwise it ends with
\* code 0, every file there was is as it was, the target directory holds
\* the files of the template and nothing else, each with the template's
\* contents except package.json, whose name is the project name and whose
\* other fields are those of the template's package.json.
C24_ProjectInit ==
    [][InitCommand =>
          LET name == cli.env.projectName
              old == cli.fs
              new == cli'.fs
              tpl == {p \in DOMAIN old : p[1] = "template"}
          IN IF InitRefused
             THEN cli'.exitCode = <<1>> /\ new = old
             ELSE /\ cli'.exitCode = <<0>>
                  /\ \A p \in DOMAIN old : new[p] = old[p]
                  /\ DOMAIN new = DOMAIN old
                                       \cup {<<name>> \o Tail(p) : p \in tpl}
                  /\ \A p \in tpl :
                         Tail(p) # <<"package.json">>
                             => new[<<name>> \o Tail(p)] = old[p]
                  /\ LET before == old[<<"template", "package.json">>]
                         after == new[<<name, "package.json">>]
                     IN /\ JsonField(after, "name") = name
                        /\ JsonKeys(after) = JsonKeys(before) \cup {"name"}
                        /\ \A k \in JsonKeys(before) \ {"name"} :
                               JsonField(after, k) = JsonField(before, k)]_vars

C24_Witness ==
    /\ cli.pc = "exited"
    /\ cli.exitCode = <<0>>
    /\ cli.env.projectName = "my-app"
    /\ cli.fs[<<"my-app", "package.json">>]
           = <<"version", "1.0.0", "name", "my-app">>
    /\ cli.fs[<<"my-app", "frontend", "main.js">>] = <<"console.log(1)">>

\* C25: a file served with 200 went through the injection step if and only
\* if it is served as text/html.
C25_InjectionIffHtmlType ==
    (req.phase = "done" /\ req.status = 200)
        => (req.injected <=> req.contentType = "text/html")

\* C26: a request that is not for the reload endpoint is answered once the
\* handler has run (403) or once fs.readFile has called back, which it does;
\* the answer is one res.end call, with status 200, 403 or 404; nothing is
\* sent before it, and the step after the file read ends the handling.
C26_ExactlyOneResponse ==
    /\ [](/\ req.phase \in {"idle", "reading", "done"}
          /\ req.phase = "done" =>
                 (req.ended = 1 /\ req.status \in {200, 403, 404})
          /\ req.phase \in {"idle", "reading"} =>
                 (req.ended = 0 /\ req.status = 0))
    /\ [][/\ (req.phase = "reading" /\ req' # req) => req'.phase = "done"
          /\ (req.phase = "idle" /\ req' # req)
                 => \/ req'.phase = "reading"
                    \/ (req'.phase = "done" /\ req'.status = 403)]_vars
    /\ (req.phase = "reading") ~> (req.phase = "done")

C26_Witness ==
    /\ req.phase = "done"
    /\ req.ended = 1
    /\ req.status = 404
    /\ broadcasts = 2

\* the shell is spawned, the watcher installed or the SIGINT handler
\* registered in this step
DevStartsUp ==
    \/ dev.java = "none" /\ dev'.java # "none"
    \/ ~dev.watcher /\ dev'.watcher
    \/ ~dev.sigintHandler /\ dev'.sigintHandler

\* C27: in the dev command the shell is spawned, the watcher installed and
\* the SIGINT handler registered only in the step that follows server.listen
\* and in which the server is listening, and the URL given to the shell has
\* the port the server bound; with a path argument that is missing or names
\* nothing, the command ends with code 1 and has neither called listen nor
\* spawned the shell
C27_DevStartupOrder ==
    /\ [][DevStartsUp => /\ dev.phase = "binding"
                         /\ dev.listenCalls = 1
                         /\ dev'.listening
                         /\ dev'.port = dev.port]_vars
    /\ [](dev.java # "none" => dev.javaUrlPort = dev.port)
    /\ [](dev.env.pathArg # "ok" =>
              /\ dev.phase \in {"main", "exited"}
              /\ dev.phase = "exited" => dev.exitCode = <<1>>
              /\ dev.listenCalls = 0
              /\ ~dev.listening
              /\ dev.java = "none"
              /\ ~dev.watcher
              /\ ~dev.sigintHandler)
    /\ [][(DevCommand /\ dev.env.pathArg # "ok")
              => (~procUp' /\ dev'.exitCode = <<1>>)]_vars

C27_Witness ==
    /\ dev.phase = "serving"
    /\ dev.listening
    /\ dev.listenCalls = 1
    /\ dev.java = "running"
    /\ dev.javaUrlPort = hotReloadPort
    /\ dev.port = hotReloadPort
    /\ dev.watcher
    /\ dev.sigintHandler
    /\ nextRes > 1

====
